---- MODULE Spec2Model ----
(***************************************************************************)
(* A model of the MCEM inference core of mccbn (src/src/mcem_hcbn.cpp and  *)
(* src/src/mcem.hpp): the entry points, the importance sampler, the        *)
(* genotype simulator and the MCEM driver with its windowed averaging.     *)
(*                                                                         *)
(* Reals (double / float) are modelled as exact fractions <<n, d>> in      *)
(* lowest terms with d > 0, extended the way IEEE-754 extends them:        *)
(* <<1, 0>> is +inf, <<-1, 0>> is -inf and <<0, 0>> is NaN.  Rounding is   *)
(* not modelled.  Vertices, observations and samples are numbered from 1   *)
(* (the code numbers them from 0); OpenMP thread numbers are kept 0-based. *)
(***************************************************************************)
EXTENDS Integers, Sequences, FiniteSets, TLC

(***************************************************************************)
(* Bounds of the model.                                                    *)
(***************************************************************************)
NumEvents == 2      \* p: number of events (vertices of the poset)
MaxObs == 2         \* N: largest number of observations
MaxL == 2           \* L: largest number of samples per observation
MaxThrds == 2       \* largest thread count
MaxIter == 3        \* largest control_EM.max_iter
MaxStep == 2        \* largest control_EM.update_step_size
MaxWork == 4        \* largest L * max_iter of a run of MCEM_hcbn
MaxSeed == 1        \* seeds range over 0..MaxSeed

(***************************************************************************)
(* Extended fractions.                                                     *)
(***************************************************************************)
RECURSIVE GCD(_, _)
GCD(a, b) == IF b = 0 THEN a ELSE GCD(b, a % b)

AbsInt(a) == IF a < 0 THEN -a ELSE a

SignInt(a) == IF a < 0 THEN -1 ELSE IF a > 0 THEN 1 ELSE 0

Norm(n, d) ==
    IF d = 0 THEN <<SignInt(n), 0>>
    ELSE LET g == GCD(AbsInt(n), AbsInt(d))
             s == SignInt(d)
         IN  <<(s * n) \div g, (s * d) \div g>>

Frac(n, d) == Norm(n, d)
RInt(n) == <<n, 1>>
Zero == <<0, 1>>
One == <<1, 1>>
NaN == <<0, 0>>
PosInf == <<1, 0>>
NegInf == <<-1, 0>>

IsNaN(x) == x = NaN
IsFinite(x) == x[2] # 0

\* x + y over the least common denominator
RAdd(x, y) ==
    IF x[2] = 0 \/ y[2] = 0
    THEN (IF x[2] = 0 /\ y[2] = 0 THEN (IF x = y THEN x ELSE NaN)
          ELSE IF x[2] = 0 THEN x ELSE y)
    ELSE LET g == GCD(x[2], y[2])
         IN  Norm(x[1] * (y[2] \div g) + y[1] * (x[2] \div g), (x[2] \div g) * y[2])

RNeg(x) == <<-x[1], x[2]>>
RSub(x, y) == RAdd(x, RNeg(y))
\* x * y, cancelling across before multiplying
RMul(x, y) ==
    IF x[2] = 0 \/ y[2] = 0 THEN Norm(SignInt(x[1]) * SignInt(y[1]), 0)
    ELSE IF x[1] = 0 \/ y[1] = 0 THEN Zero
    ELSE LET g1 == GCD(AbsInt(x[1]), y[2])
             g2 == GCD(AbsInt(y[1]), x[2])
         IN  <<(x[1] \div g1) * (y[1] \div g2), (x[2] \div g2) * (y[2] \div g1)>>
RInv(x) == IF x[1] < 0 THEN Norm(-x[2], -x[1]) ELSE Norm(x[2], x[1])
RDiv(x, y) == RMul(x, RInv(y))
RAbs(x) == <<AbsInt(x[1]), x[2]>>

\* x < y and x <= y; every comparison with NaN is false
RLt(x, y) ==
    IF IsNaN(x) \/ IsNaN(y) THEN FALSE
    ELSE IF x[2] = 0 \/ y[2] = 0
         THEN (x # y) /\ (x = NegInf \/ y = PosInf)
         ELSE LET g == GCD(x[2], y[2])
              IN  x[1] * (y[2] \div g) < y[1] * (x[2] \div g)

RLe(x, y) ==
    IF IsNaN(x) \/ IsNaN(y) THEN FALSE
    ELSE x = y \/ RLt(x, y)

\* std::min(a, b): (b < a) ? b : a
RMin(a, b) == IF RLt(b, a) THEN b ELSE a

\* pow(x, k) for an integer k >= 0; pow(x, 0) is 1 for every x, NaN included
RECURSIVE RPow(_, _)
RPow(x, k) == IF k = 0 THEN One ELSE RMul(x, RPow(x, k - 1))

RECURSIVE RSum(_)
RSum(s) == IF s = <<>> THEN Zero ELSE RAdd(s[1], RSum(Tail(s)))

\* the dot product of two sequences of the same length
RDot(a, b) == RSum([k \in 1..Len(a) |-> RMul(a[k], b[k])])

(***************************************************************************)
(* The random-number service (rng_utils.hpp is not among the sources: a    *)
(* stream is modelled as a deterministic generator over a small state      *)
(* space; a draw advances the state and returns it).                       *)
(***************************************************************************)
RngMod == 16
RngStates == 0..(RngMod - 1)

\* rng_type(seed): the state a generator constructed from `seed` starts in
RngSeed(seed) == (7 * seed + 1) % RngMod

\* rng(): one draw; the value returned is the new state
RngStep(s) == (5 * s + 3) % RngMod

\* the state after k draws, which is also the k-th value drawn
RECURSIVE RngIter(_, _)
RngIter(s, k) == IF k = 0 THEN s ELSE RngStep(RngIter(s, k - 1))

\* Context::get_auxiliary_rngs(num_rngs): num_rngs streams, each seeded by one
\* draw of the root stream, and the root stream after those draws
get_auxiliary_rngs(rng, num_rngs) ==
    [rngs |-> [t \in 1..num_rngs |-> RngSeed(RngIter(rng, t))],
     rng  |-> RngIter(rng, num_rngs)]

\* the standard exponential variate a draw u is turned into
StdExp(u) == 1 + (u % 3)

\* rexp_std(N, lambda, rng): the i-th of the N variates, drawn after `before`
\* earlier draws of the same stream: a standard variate divided by the rate
rexp_std(rng, before, i, lambda) ==
    RDiv(RInt(StdExp(RngIter(rng, before + i))), lambda)

(***************************************************************************)
(* The poset: a set of edges <<u, v>> over the vertices 1..p.              *)
(***************************************************************************)
Events == 1..NumEvents

AllEdges == {e \in Events \X Events : e[1] # e[2]}

Parents(poset, v) == {u \in Events : <<u, v>> \in poset}

\* the vertices reachable from u by a path of at least one edge
RECURSIVE ReachFrom(_, _, _)
ReachFrom(poset, frontier, seen) ==
    LET next == {v \in Events : \E u \in frontier : <<u, v>> \in poset} \ seen
    IN  IF next = {} THEN seen ELSE ReachFrom(poset, next, seen \cup next)

Successors(poset, u) == ReachFrom(poset, {u}, {})

\* Model::has_cycles(): the value recorded in Model::cycle
has_cycles(poset) == \E v \in Events : v \in Successors(poset, v)

Orderings(S) ==
    {f \in [1..Cardinality(S) -> S] : \A a, b \in 1..Cardinality(S) : a # b => f[a] # f[b]}

PositionIn(order, v) == CHOOSE k \in 1..Len(order) : order[k] = v

\* the orders of the vertices with u before v for every edge u -> v
TopologicalOrders(poset) ==
    {o \in Orderings(Events) :
        \A e \in poset : PositionIn(o, e[1]) < PositionIn(o, e[2])}

\* Model::topological_sort(): the orders it may store in topo_path, each with
\* u before v for every edge u -> v; nothing is said of the order stored for
\* a poset with a cycle
topological_sort(poset) ==
    IF has_cycles(poset) THEN Orderings(Events) ELSE TopologicalOrders(poset)

(***************************************************************************)
(* The genotype simulator.  A matrix is a sequence of rows.                *)
(***************************************************************************)
\* the loop over the parents of v: T_max starts at 0.0 and is replaced by every
\* larger cumulative time of a parent
RECURSIVE MaxOver(_, _)
MaxOver(vals, T_max) ==
    IF vals = {} THEN T_max
    ELSE LET x == CHOOSE y \in vals : TRUE
         IN  MaxOver(vals \ {x}, IF RLt(T_max, x) THEN x ELSE T_max)

T_maxOf(poset, sum_row, v) == MaxOver({sum_row[u] : u \in Parents(poset, v)}, Zero)

\* the order in which sample_genotypes visits the vertices: topo_path from
\* rbegin() to rend(), that is, from its last element to its first
VisitOrder(topo_path) == [k \in 1..Len(topo_path) |-> topo_path[Len(topo_path) + 1 - k]]

\* row i of T_events_sum after the first k vertices of `visit` were processed
\* (T_events_sum starts as zeros)
RECURSIVE SumRowAfter(_, _, _, _)
SumRowAfter(poset, visit, T_row, k) ==
    IF k = 0 THEN [v \in Events |-> Zero]
    ELSE LET prev == SumRowAfter(poset, visit, T_row, k - 1)
             v == visit[k]
         IN  [prev EXCEPT ![v] = RAdd(T_row[v], T_maxOf(poset, prev, v))]

\* row i of obs: obs(i, v) is set when v is processed, from the cumulative time
\* just stored for v
ObsRow(poset, visit, T_row, T_samp) ==
    [v \in Events |->
        LET k == PositionIn(visit, v)
        IN  RLe(SumRowAfter(poset, visit, T_row, k)[v], T_samp)]

\* sample_genotypes(N, model, T_events, T_sampling, rng, sampling_times_available):
\* T_sampling_in is T_sampling as the caller passes it
sample_genotypes(N, model, T_sampling_in, rng, sampling_times_available) ==
    LET p == NumEvents
        T_events == [i \in 1..N |-> [j \in Events |->
                        rexp_std(rng, (j - 1) * N, i, model.lambda[j])]]
        T_sampling == IF sampling_times_available THEN T_sampling_in
                      ELSE [i \in 1..N |-> rexp_std(rng, p * N, i, model.lambda_s)]
        visit == VisitOrder(model.topo_path)
    IN  [obs          |-> [i \in 1..N |-> ObsRow(model.poset, visit, T_events[i], T_sampling[i])],
         T_events     |-> T_events,
         T_sampling   |-> T_sampling,
         T_events_sum |-> [i \in 1..N |->
                             SumRowAfter(model.poset, visit, T_events[i], Len(visit))],
         rng          |-> RngIter(rng, p * N + (IF sampling_times_available THEN 0 ELSE N))]

\* hamming_dist_mat(x, y): per row of x, the number of places where it differs from y
hamming_dist_mat(x, y) ==
    [i \in 1..Len(x) |-> Cardinality({j \in Events : x[i][j] # y[j]})]

(***************************************************************************)
(* The importance sampler.                                                 *)
(***************************************************************************)
\* DBL_EPSILON (2^-52 in <cfloat>), scaled to 2^-4 so that its powers stay
\* within the integers of the model; only 0 < DBL_EPSILON < 1 is used
DBL_EPSILON == Frac(1, 16)

\* w_l = pow(eps, d_l) * pow(1 - eps, p - d_l)
BernoulliWeight(d, eps, p) == RMul(RPow(eps, d), RPow(RSub(One, eps), p - d))

\* exp(log_bernoulli_process(dist, eps, p)) for one entry d of dist.
\*   eps == 0: exp(0) when d == 0, else the product formed with DBL_EPSILON;
\*   eps outside [0, 1] or NaN: log of a negative number or of NaN is NaN;
\*   eps == 1: log(1 - eps) = -inf, times (p - d): NaN when p == d, else -inf.
exp_log_bernoulli_process(d, eps, p) ==
    IF eps = Zero
    THEN (IF d # 0 THEN BernoulliWeight(d, DBL_EPSILON, p) ELSE One)
    ELSE IF IsNaN(eps) \/ RLt(eps, Zero) \/ RLt(One, eps) THEN NaN
    ELSE IF eps = One THEN (IF p = d THEN NaN ELSE Zero)
    ELSE BernoulliWeight(d, eps, p)

\* the proposals importance_weight implements
Proposals == {"forward", "rejection"}

\* the contents an Eigen vector or matrix that was constructed and never
\* written may show: each object is read as filled with one of these values
GarbageReals == {Zero, One}
GarbageInts == {0, 1}

\* the cumulative sums of q
CumSum(q) == [k \in 1..Len(q) |-> RSum(SubSeq(q, 1, k))]

MinOf(S) == CHOOSE x \in S : \A y \in S : x <= y

\* the standard libraries the program is built with
StdLibs == {"libstdc++", "libc++"}

\* a choice of pool rows that ignores the weights
rdiscrete_first(q, u, stdlib) == 1

\* std::discrete_distribution(q)(rng) for the draw u: the first index whose
\* cumulative probability exceeds u / RngMod.  Probabilities that are NaN are
\* outside the contract of the distribution: the binary search of libstdc++
\* then stops at the first index of the pool, that of libc++ at the last
rdiscrete_std(q, u, stdlib) ==
    LET cum == CumSum(q)
        hit == {k \in 1..Len(q) : RLt(Frac(u, RngMod), cum[k])}
    IN  IF hit # {} THEN MinOf(hit)
        ELSE IF stdlib = "libstdc++" THEN 1 ELSE Len(q)

\* the forward proposal (lines 251-265)
ImportanceForward(genotype, L, model, time, rng, sampling_times_available) ==
    LET p == NumEvents
        smp == sample_genotypes(L, model, [l \in 1..L |-> time], rng,
                                sampling_times_available)
        dist == hamming_dist_mat(smp.obs, genotype)
    IN  {[w     |-> [l \in 1..L |-> BernoulliWeight(dist[l], model.epsilon, p)],
          dist  |-> dist,
          Tdiff |-> smp.T_events,
          rng   |-> smp.rng]}

\* if (q_prob.sum() == 0): the pool is sampled uniformly (lines 285-289)
UniformFallback(q_prob) == RSum(q_prob) = Zero

\* the rejection proposal (lines 268-307)
ImportanceRejection(genotype, L, model, time, rng, sampling_times_available, stdlib) ==
    LET p == NumEvents
        K == p * L
        pool == sample_genotypes(K, model, [l \in 1..K |-> time], rng,
                                 sampling_times_available)
        dist_pool == hamming_dist_mat(pool.obs, genotype)
        q_prob0 == [l \in 1..K |-> BernoulliWeight(dist_pool[l], model.epsilon, p)]
        random == UniformFallback(q_prob0)
        q_prob1 == IF random THEN [l \in 1..K |-> One] ELSE q_prob0
        q_prob_sum == RSum(q_prob1)
        q_prob == [l \in 1..K |-> RDiv(q_prob1[l], q_prob_sum)]
        idxs_sample == [l \in 1..L |-> rdiscrete_std(q_prob, RngIter(pool.rng, l), stdlib)]
    IN  {[w     |-> [l \in 1..L |->
                        IF random
                        THEN exp_log_bernoulli_process(dist_pool[idxs_sample[l]],
                                                       model.epsilon, p)
                        ELSE RDiv(q_prob_sum, RInt(K))],
          dist  |-> [l \in 1..L |-> dist_pool[idxs_sample[l]]],
          Tdiff |-> [l \in 1..L |-> pool.T_events[idxs_sample[l]]],
          rng   |-> RngIter(pool.rng, L)]}

\* "add-remove" and every other name: no branch writes the record, which is
\* returned as constructed (lines 249, 266-267, 310)
ImportanceUnwritten(L, rng) ==
    {[w     |-> [l \in 1..L |-> gw],
      dist  |-> [l \in 1..L |-> gd],
      Tdiff |-> [l \in 1..L |-> [j \in Events |-> gt]],
      rng   |-> rng] : gw \in GarbageReals, gd \in GarbageInts, gt \in GarbageReals}

\* importance_weight(genotype, L, model, time, sampling, version, rng,
\* sampling_times_available): the records it may return, each with the state
\* the stream is left in
importance_weight(genotype, L, model, time, sampling, rng, sampling_times_available, stdlib) ==
    IF sampling = "forward"
    THEN ImportanceForward(genotype, L, model, time, rng, sampling_times_available)
    ELSE IF sampling = "add-remove"
    THEN ImportanceUnwritten(L, rng)
    ELSE IF sampling = "rejection"
    THEN ImportanceRejection(genotype, L, model, time, rng, sampling_times_available,
                             stdlib)
    ELSE ImportanceUnwritten(L, rng)

\* E_dist[i] = w . dist / sum(w)
ExpectedDist(is) ==
    RDiv(RDot(is.w, [l \in 1..Len(is.dist) |-> RInt(is.dist[l])]), RSum(is.w))

\* E_Tdiff[i, :] = Tdiff^T w / sum(w)
ExpectedTdiff(is) ==
    [j \in Events |->
        RDiv(RDot([l \in 1..Len(is.w) |-> is.Tdiff[l][j]], is.w), RSum(is.w))]

(***************************************************************************)
(* The log-likelihood kernel.  std::log is replaced by a rational stand-in *)
(* (its tangent at 1) with the same sign, the same zero and the same       *)
(* special values: NaN below 0 and of NaN, -inf at 0, +inf at +inf.        *)
(***************************************************************************)
Log(x) ==
    IF IsNaN(x) \/ RLt(x, Zero) THEN NaN
    ELSE IF x = Zero THEN NegInf
    ELSE IF x = PosInf THEN PosInf
    ELSE RSub(x, One)

\* complete_log_likelihood(lambda, eps, Tdiff, dist, W)
complete_log_likelihood(lambda, eps, Tdiff, dist, W) ==
    LET p == NumEvents
        N == Len(dist)
        base == RSub(RMul(W, RSum([j \in Events |-> Log(lambda[j])])),
                     RSum([i \in 1..N |-> RDot(Tdiff[i], lambda)]))
        term0(i) == IF dist[i] # Zero
                    THEN RAdd(RMul(Log(RAdd(eps, DBL_EPSILON)), dist[i]),
                              RMul(Log(RSub(RSub(One, eps), DBL_EPSILON)),
                                   RSub(RInt(p), dist[i])))
                    ELSE Zero
    IN  IF eps = Zero
        THEN RAdd(base, RSum([i \in 1..N |-> term0(i)]))
        ELSE RAdd(base,
                  RAdd(RMul(Log(eps), RSum(dist)),
                       RMul(Log(RSub(One, eps)),
                            RSum([i \in 1..N |-> RSub(RInt(p), dist[i])]))))

(***************************************************************************)
(* Model setters (model.cpp is not among the sources).                     *)
(***************************************************************************)
\* Model::set_lambda(lambda): stores lambda
set_lambda(lambda) == lambda

\* Model::set_epsilon(eps) and Model::set_llhood(llhood): store the value
set_epsilon(eps) == eps
set_llhood(llhood) == llhood

\* Model::set_lambda(lambda, max_lambda): stores min(lambda_j, max_lambda), and
\* max_lambda for a lambda_j that is not finite
set_lambda_max(lambda, max_lambda) ==
    [j \in Events |-> IF IsFinite(lambda[j]) THEN RMin(lambda[j], max_lambda)
                      ELSE max_lambda]

(***************************************************************************)
(* unsigned int arithmetic (32 bits), on pairs <<high half, low half>>.    *)
(***************************************************************************)
Half == 2^16

ToU32(n) == <<(n \div Half) % Half, n % Half>>

UAdd(a, b) ==
    LET lo == a[2] + b[2]
    IN  <<(a[1] + b[1] + (lo \div Half)) % Half, lo % Half>>

USub(a, b) ==
    LET lo == a[2] - b[2]
        borrow == IF lo < 0 THEN 1 ELSE 0
    IN  <<(a[1] - b[1] - borrow) % Half, lo % Half>>

UVal(a) == a[1] * Half + a[2]

\* a divisor that counts every iteration of the run
num_iter_all(max_iter, update_step_size, control_step) == max_iter

\* a divisor that is the length of a complete window
num_iter_window(max_iter, update_step_size, control_step) == control_step

\* num_iter = control_EM.max_iter - update_step_size + control_EM.update_step_size
num_iter(max_iter, update_step_size, control_step) ==
    UVal(UAdd(USub(ToU32(max_iter), ToU32(update_step_size)), ToU32(control_step)))

(***************************************************************************)
(* The static schedule of a parallel for over N observations.              *)
(***************************************************************************)
\* the number of threads of the team after omp_set_num_threads(thrds)
TeamSize(thrds) == IF thrds > 0 THEN thrds ELSE 1

\* the observations thread t executes, in order: one contiguous chunk per
\* thread, the first N % team chunks one longer
ChunkSize(t, N, team) == (N \div team) + (IF t < N % team THEN 1 ELSE 0)

ChunkStart(t, N, team) ==
    t * (N \div team) + (IF t < N % team THEN t ELSE N % team)

\* one stream, the first, for every worker
StreamShared(t) == 0

\* omp_get_thread_num() of the worker, as the index of its stream in rngs
StreamIndex(t) == t

(***************************************************************************)
(* State.                                                                  *)
(***************************************************************************)
VARIABLES
    arg,      \* the arguments of the entry point called (never changed)
    pc,       \* the position of the main thread
    error,    \* the exception that ended the call, "none" otherwise
    model,    \* the Model object M
    ctx,      \* the Context: rng is the state of the root stream
    rngs,     \* the streams of the current parallel region
    em,       \* the locals of MCEM_hcbn
    par,      \* the parallel region: done[t] observations finished by thread
              \* t, and the per-observation outputs
    result,   \* what the entry point returns
    obsv,     \* bookkeeping for the properties (never read by the program)
    run,      \* 1, or 2 in the second of two executions with the same arguments
    first     \* the bookkeeping and result of the first execution

vars == <<arg, pc, error, model, ctx, rngs, em, par, result, obsv, run, first>>

Entries == {"MCEM_hcbn", "obs_log_likelihood", "importance_weight",
            "importance_weight_genotype", "sample_genotypes"}

NObs == Len(arg.obs)
ZeroVec == [j \in Events |-> Zero]

ModelInit ==
    [poset |-> {}, topo_path |-> <<>>, cycle |-> FALSE, lambda |-> ZeroVec,
     lambda_s |-> One, epsilon |-> Zero, llhood |-> Zero]

\* lines 328-336
EmInit ==
    [iter |-> 0, update_step_size |-> 0, avg_lambda |-> ZeroVec,
     avg_lambda_current |-> ZeroVec, avg_eps |-> Zero, avg_llhood |-> Zero,
     llhood |-> Zero, avg_eps_current |-> Zero, tol_comparison |-> TRUE]

ParInit ==
    [done |-> <<>>, w_sum |-> <<>>, expected_dist |-> <<>>,
     expected_Tdiff |-> <<>>, llhood |-> <<>>]

ObsvInit ==
    [sorted |-> FALSE, spawns |-> 0, drawn |-> FALSE, msteps |-> <<>>,
     records |-> 0, zero_sum |-> FALSE, broke_at |-> -1, last |-> <<>>,
     added |-> 0, divided |-> FALSE, divisions |-> <<>>]

StartState ==
    /\ pc = "start"
    /\ error = "none"
    /\ model = ModelInit
    /\ ctx = [rng |-> 0]
    /\ rngs = <<>>
    /\ em = EmInit
    /\ par = ParInit
    /\ result = <<>>
    /\ obsv = ObsvInit

(***************************************************************************)
(* The prologue every entry point runs: lines 531-539, 186-194, 577-585,   *)
(* 628-635 and 681-688.                                                    *)
(***************************************************************************)
\* Model M(edge_list, p, lambda_s); M.set_lambda(lambda); M.set_epsilon(eps)
Construct ==
    /\ pc = "start"
    /\ model' = [ModelInit EXCEPT !.poset = arg.poset,
                                  !.lambda = set_lambda(arg.lambda),
                                  !.lambda_s = arg.lambda_s,
                                  !.epsilon = set_epsilon(arg.eps)]
    /\ pc' = "constructed"
    /\ UNCHANGED <<arg, error, ctx, rngs, em, par, result, obsv, run, first>>

\* M.has_cycles()
HasCycles ==
    /\ pc = "constructed"
    /\ model' = [model EXCEPT !.cycle = has_cycles(model.poset)]
    /\ pc' = "checked"
    /\ UNCHANGED <<arg, error, ctx, rngs, em, par, result, obsv, run, first>>

\* a test that never reports a cycle
CycleIgnored(m) == FALSE

\* if (M.cycle)
CycleFound(m) == m.cycle

\* throw not_acyclic_exception()
ThrowNotAcyclic ==
    /\ pc = "checked"
    /\ CycleFound(model)
    /\ pc' = "error"
    /\ error' = "NotAcyclic"
    /\ UNCHANGED <<arg, model, ctx, rngs, em, par, result, obsv, run, first>>

\* M.topological_sort()
TopologicalSort ==
    /\ pc = "checked"
    /\ ~CycleFound(model)
    /\ \E o \in topological_sort(model.poset) :
          model' = [model EXCEPT !.topo_path = o]
    /\ obsv' = [obsv EXCEPT !.sorted = TRUE]
    /\ pc' = "sorted"
    /\ UNCHANGED <<arg, error, ctx, rngs, em, par, result, run, first>>

(***************************************************************************)
(* Parallel regions: lines 385-402, 196-207 and 639-654.                   *)
(***************************************************************************)
Team == TeamSize(arg.thrds)
Workers == 0..(Team - 1)

Remaining(t) == par.done[t] < ChunkSize(t, NObs, Team)

\* a region that is left as soon as one worker has finished its chunk
SomeDone == \E t \in Workers : ~Remaining(t)

AllDone == \A t \in Workers : ~Remaining(t)

\* the observation thread t executes next
NextObs(t) == ChunkStart(t, NObs, Team) + par.done[t] + 1

\* rngs[omp_get_thread_num()]: the states the stream the worker draws from may
\* be in; an index past the end of rngs reads whatever lies there
StreamStates(t) ==
    IF StreamIndex(t) + 1 \in DOMAIN rngs THEN {rngs[StreamIndex(t) + 1]}
    ELSE RngStates

StreamsAfter(t, s) ==
    IF StreamIndex(t) + 1 \in DOMAIN rngs
    THEN [rngs EXCEPT ![StreamIndex(t) + 1] = s]
    ELSE rngs

\* whether a call of importance_weight generates samples
Samples == arg.sampling \in Proposals /\ arg.L > 0

Noted(r) ==
    [obsv EXCEPT !.drawn = @ \/ Samples,
                 !.records = @ + 1,
                 !.zero_sum = @ \/ (RSum(r.w) = Zero)]

\* omp_set_num_threads(thrds); auto rngs = ctx.get_auxiliary_rngs(thrds)
Spawn ==
    /\ pc = "spawn"
    /\ LET a == get_auxiliary_rngs(ctx.rng, arg.thrds)
       IN  /\ rngs' = a.rngs
           /\ ctx' = [ctx EXCEPT !.rng = a.rng]
    /\ par' = [par EXCEPT !.done = [t \in Workers |-> 0],
                          !.llhood = [t \in Workers |-> Zero]]
    /\ obsv' = [obsv EXCEPT !.spawns = @ + 1, !.zero_sum = FALSE]
    /\ pc' = "region"
    /\ UNCHANGED <<arg, error, model, em, result, run, first>>

\* one iteration of the E-step loop (lines 391-402), executed by thread t
EStepWorker(t) ==
    /\ pc = "region"
    /\ arg.entry = "MCEM_hcbn"
    /\ Remaining(t)
    /\ LET i == NextObs(t)
       IN  \E s \in StreamStates(t) :
           \E r \in importance_weight(arg.obs[i], arg.L, model, arg.times[i],
                                      arg.sampling, s, arg.sampling_times_available,
                                      arg.stdlib) :
              /\ par' = [par EXCEPT !.done[t] = @ + 1,
                                    !.expected_dist[i] = ExpectedDist(r),
                                    !.expected_Tdiff[i] = ExpectedTdiff(r)]
              /\ rngs' = StreamsAfter(t, r.rng)
              /\ obsv' = Noted(r)
    /\ UNCHANGED <<arg, pc, error, model, ctx, em, result, run, first>>

\* one iteration of the loop of obs_log_likelihood (lines 202-207): llhood is
\* the thread's private copy of the reduction variable
ObsLlhoodWorker(t) ==
    /\ pc = "region"
    /\ arg.entry = "obs_log_likelihood"
    /\ Remaining(t)
    /\ LET i == NextObs(t)
       IN  \E s \in StreamStates(t) :
           \E r \in importance_weight(arg.obs[i], arg.L, model, arg.times[i],
                                      arg.sampling, s, arg.sampling_times_available,
                                      arg.stdlib) :
              /\ par' = [par EXCEPT !.done[t] = @ + 1,
                                    !.llhood[t] = RAdd(@, Log(RDiv(RSum(r.w), RInt(arg.L))))]
              /\ rngs' = StreamsAfter(t, r.rng)
              /\ obsv' = Noted(r)
    /\ UNCHANGED <<arg, pc, error, model, ctx, em, result, run, first>>

\* one iteration of the loop of _importance_weight (lines 645-654)
ImportanceWorker(t) ==
    /\ pc = "region"
    /\ arg.entry = "importance_weight"
    /\ Remaining(t)
    /\ LET i == NextObs(t)
       IN  \E s \in StreamStates(t) :
           \E r \in importance_weight(arg.obs[i], arg.L, model, arg.times[i],
                                      arg.sampling, s, arg.sampling_times_available,
                                      arg.stdlib) :
              /\ par' = [par EXCEPT !.done[t] = @ + 1,
                                    !.w_sum[i] = RSum(r.w),
                                    !.expected_dist[i] = ExpectedDist(r),
                                    !.expected_Tdiff[i] = ExpectedTdiff(r)]
              /\ rngs' = StreamsAfter(t, r.rng)
              /\ obsv' = Noted(r)
    /\ UNCHANGED <<arg, pc, error, model, ctx, em, result, run, first>>

\* rngs[omp_get_thread_num()] past the end of rngs (thrds == 0): the access
\* may also end the process
OutOfBounds ==
    /\ pc = "region"
    /\ \E t \in Workers : Remaining(t) /\ StreamIndex(t) + 1 \notin DOMAIN rngs
    /\ pc' = "crashed"
    /\ UNCHANGED <<arg, error, model, ctx, rngs, em, par, result, obsv, run, first>>

(***************************************************************************)
(* MCEM_hcbn (lines 316-438) and its caller _MCEM_hcbn (lines 541-551).    *)
(***************************************************************************)
Unwritten(N) ==
    [par EXCEPT !.w_sum = [i \in 1..N |-> Zero],
                !.expected_dist = [i \in 1..N |-> Zero],
                !.expected_Tdiff = [i \in 1..N |-> ZeroVec]]

\* Context ctx(seed, verbose); MCEM_hcbn(M, ...): lines 324-336.  expected_dist
\* and expected_Tdiff are written by every E-step before they are read.
CallMCEM ==
    /\ pc = "sorted"
    /\ arg.entry = "MCEM_hcbn"
    /\ ctx' = [ctx EXCEPT !.rng = RngSeed(arg.seed)]
    /\ em' = [EmInit EXCEPT !.update_step_size = arg.update_step_size]
    /\ par' = Unwritten(NObs)
    /\ pc' = "loop"
    /\ UNCHANGED <<arg, error, model, rngs, result, obsv, run, first>>

\* a loop condition that admits one more iteration
LoopOneMore(iter, max_iter) == iter <= max_iter

\* iter < control_EM.max_iter
LoopContinues(iter, max_iter) == iter < max_iter

\* the loop condition of line 357
LoopTest ==
    /\ pc = "loop"
    /\ pc' = IF LoopContinues(em.iter, arg.max_iter) THEN "boundary" ELSE "writeback"
    /\ UNCHANGED <<arg, error, model, ctx, rngs, em, par, result, obsv, run, first>>

\* the record of a division of the window sums by n: the number of iterations
\* added to the sums since they were last zero, and whether the sums were
\* already divided since
Division(n, added) == [divisor |-> n, added |-> added, again |-> obsv.divided]

\* the averages of lines 360-362
WindowAverage(sum, step) == RDiv(sum, RInt(step))

\* the test of lines 363-366 on the current averages cur_l and cur_e
Converged(e, cur_l, cur_e, tol) ==
    /\ e.tol_comparison
    /\ RLe(RAbs(RSub(e.avg_eps, cur_e)), tol)
    /\ \A j \in Events : RLe(RAbs(RSub(e.avg_lambda[j], cur_l[j])), tol)

\* lines 359-379
WindowBoundary ==
    /\ pc = "boundary"
    /\ IF em.iter = em.update_step_size
       THEN LET cur_l == [j \in Events |->
                            WindowAverage(em.avg_lambda_current[j], arg.update_step_size)]
                cur_e == WindowAverage(em.avg_eps_current, arg.update_step_size)
                cur_ll == WindowAverage(em.avg_llhood, arg.update_step_size)
            IN  IF Converged(em, cur_l, cur_e, arg.tol)
                THEN /\ em' = [em EXCEPT !.avg_lambda_current = cur_l,
                                         !.avg_eps_current = cur_e,
                                         !.avg_llhood = cur_ll]
                     /\ obsv' = [obsv EXCEPT
                            !.broke_at = em.iter,
                            !.divided = TRUE,
                            !.divisions =
                                Append(@, Division(arg.update_step_size, obsv.added))]
                     /\ pc' = "writeback"
                ELSE /\ em' = [em EXCEPT !.avg_lambda = cur_l,
                                         !.avg_eps = cur_e,
                                         !.update_step_size = @ + arg.update_step_size,
                                         !.tol_comparison = TRUE,
                                         !.avg_lambda_current = ZeroVec,
                                         !.avg_eps_current = Zero,
                                         !.avg_llhood = Zero]
                     /\ obsv' = [obsv EXCEPT
                            !.added = 0,
                            !.divided = FALSE,
                            !.divisions =
                                Append(@, Division(arg.update_step_size, obsv.added))]
                     /\ pc' = "spawn"
       ELSE /\ pc' = "spawn"
            /\ UNCHANGED <<em, obsv>>
    /\ UNCHANGED <<arg, error, model, ctx, rngs, par, result, run, first>>

\* the M-step and the end of the loop body (lines 404-431), after the
\* parallel for has ended
MStep ==
    /\ pc = "region"
    /\ arg.entry = "MCEM_hcbn"
    /\ AllDone
    /\ LET p == NumEvents
           W == RSum(arg.weights)
           eps == RDiv(RSum(par.expected_dist), RInt(NObs * p))
           Tdiff_colsum == [j \in Events |->
                              RDot(arg.weights,
                                   [i \in 1..NObs |-> par.expected_Tdiff[i][j]])]
           lambda == set_lambda_max([j \in Events |-> RInv(RDiv(Tdiff_colsum[j], W))],
                                    arg.max_lambda)
           llhood == complete_log_likelihood(lambda, eps, par.expected_Tdiff,
                                             par.expected_dist, W)
           sum_l == [j \in Events |-> RAdd(em.avg_lambda_current[j], lambda[j])]
           sum_e == RAdd(em.avg_eps_current, eps)
           sum_ll == RAdd(em.avg_llhood, llhood)
           last == em.iter + 1 = arg.max_iter
           n == num_iter(arg.max_iter, em.update_step_size, arg.update_step_size)
       IN  /\ model' = [model EXCEPT !.lambda = lambda, !.epsilon = set_epsilon(eps)]
           /\ em' = [em EXCEPT
                  !.llhood = llhood,
                  !.avg_lambda_current =
                      IF last THEN [j \in Events |-> RDiv(sum_l[j], RInt(n))] ELSE sum_l,
                  !.avg_eps_current = IF last THEN RDiv(sum_e, RInt(n)) ELSE sum_e,
                  !.avg_llhood = IF last THEN RDiv(sum_ll, RInt(n)) ELSE sum_ll,
                  !.iter = @ + 1]
           /\ obsv' = [obsv EXCEPT
                  !.msteps =
                      Append(@, [lambda |-> lambda, epsilon |-> eps, llhood |-> llhood,
                                 zero_sum |-> obsv.zero_sum]),
                  !.added = @ + 1,
                  !.divided = @ \/ last,
                  !.divisions =
                      IF last THEN Append(@, Division(n, obsv.added + 1)) ELSE @]
    /\ pc' = "loop"
    /\ UNCHANGED <<arg, error, ctx, rngs, par, result, run, first>>

\* lines 433-437 and the list _MCEM_hcbn returns (lines 550-551)
WriteBack ==
    /\ pc = "writeback"
    /\ model' = [model EXCEPT !.lambda = set_lambda(em.avg_lambda_current),
                              !.epsilon = set_epsilon(em.avg_eps_current),
                              !.llhood = set_llhood(em.avg_llhood)]
    /\ result' = [lambda |-> model'.lambda, eps |-> model'.epsilon,
                  llhood |-> em.avg_llhood]
    /\ pc' = "done"
    /\ UNCHANGED <<arg, error, ctx, rngs, em, par, obsv, run, first>>

(***************************************************************************)
(* The other entry points.                                                 *)
(***************************************************************************)
\* obs_log_likelihood, called by _obs_log_likelihood with Context ctx(seed)
CallObsLlhood ==
    /\ pc = "sorted"
    /\ arg.entry = "obs_log_likelihood"
    /\ ctx' = [ctx EXCEPT !.rng = RngSeed(arg.seed)]
    /\ pc' = "spawn"
    /\ UNCHANGED <<arg, error, model, rngs, em, par, result, obsv, run, first>>

\* the reduction of line 201 and the return of line 209
ObsLlhoodReturn ==
    /\ pc = "region"
    /\ arg.entry = "obs_log_likelihood"
    /\ AllDone
    /\ result' = [llhood |-> RSum([k \in 1..Team |-> par.llhood[k - 1]])]
    /\ pc' = "done"
    /\ UNCHANGED <<arg, error, model, ctx, rngs, em, par, obsv, run, first>>

\* _importance_weight: lines 625-642
CallImportance ==
    /\ pc = "sorted"
    /\ arg.entry = "importance_weight"
    /\ ctx' = [ctx EXCEPT !.rng = RngSeed(arg.seed)]
    /\ par' = Unwritten(NObs)
    /\ pc' = "spawn"
    /\ UNCHANGED <<arg, error, model, rngs, em, result, obsv, run, first>>

\* lines 657-658
ImportanceReturn ==
    /\ pc = "region"
    /\ arg.entry = "importance_weight"
    /\ AllDone
    /\ result' = [w |-> par.w_sum, dist |-> par.expected_dist,
                  Tdiff |-> par.expected_Tdiff]
    /\ pc' = "done"
    /\ UNCHANGED <<arg, error, model, ctx, rngs, em, par, obsv, run, first>>

\* _importance_weight_genotype: lines 588-594, for the genotype obs[1] and the
\* time times[1], drawing from the root stream
CallImportanceGenotype ==
    /\ pc = "sorted"
    /\ arg.entry = "importance_weight_genotype"
    /\ \E r \in importance_weight(arg.obs[1], arg.L, model, arg.times[1], arg.sampling,
                                  RngSeed(arg.seed), arg.sampling_times_available,
                                  arg.stdlib) :
          /\ result' = [w |-> r.w, dist |-> r.dist, Tdiff |-> r.Tdiff]
          /\ ctx' = [ctx EXCEPT !.rng = r.rng]
          /\ obsv' = Noted(r)
    /\ pc' = "done"
    /\ UNCHANGED <<arg, error, model, rngs, em, par, run, first>>

\* _sample_genotypes: lines 691-697, for N = the length of times and
\* T_sampling = times
CallSampleGenotypes ==
    /\ pc = "sorted"
    /\ arg.entry = "sample_genotypes"
    /\ LET smp == sample_genotypes(Len(arg.times), model, arg.times, RngSeed(arg.seed),
                                   arg.sampling_times_available)
       IN  /\ result' = [samples |-> smp.obs, Tdiff |-> smp.T_events,
                         sampling_time |-> smp.T_sampling]
           /\ ctx' = [ctx EXCEPT !.rng = smp.rng]
           /\ obsv' = [obsv EXCEPT !.drawn = @ \/ Len(arg.times) > 0, !.last = smp]
    /\ pc' = "done"
    /\ UNCHANGED <<arg, error, model, rngs, em, par, run, first>>

\* a second execution with the same arguments, after the first has ended
Rerun ==
    /\ pc = "done"
    /\ run = 1
    /\ first' = [msteps |-> obsv.msteps, result |-> result, model |-> model]
    /\ run' = 2
    /\ pc' = "start"
    /\ error' = "none"
    /\ model' = ModelInit
    /\ ctx' = [rng |-> 0]
    /\ rngs' = <<>>
    /\ em' = EmInit
    /\ par' = ParInit
    /\ result' = <<>>
    /\ obsv' = ObsvInit
    /\ UNCHANGED arg

(***************************************************************************)
(* Arguments.                                                              *)
(***************************************************************************)
Genotypes == [Events -> BOOLEAN]

Ones(n) == [i \in 1..n |-> One]

\* the posets of the runs of MCEM_hcbn: no edge, the edge 1 -> 2, and both
\* 1 -> 2 and 2 -> 1
PosetChoices == {{}, {<<1, 2>>}, {<<1, 2>>, <<2, 1>>}}

MCEMArgs ==
    [entry : {"MCEM_hcbn"},
     poset : PosetChoices,
     lambda : {[j \in Events |-> One]},
     lambda_s : {One},
     eps : {Zero, Frac(1, 2), One},
     obs : {[i \in 1..n |-> [j \in Events |-> j < 3 - i]] : n \in 1..MaxObs},
     L : 1..MaxL,
     sampling : Proposals,
     max_iter : 0..MaxIter,
     update_step_size : 0..MaxStep,
     tol : {Zero, Frac(1, 2), RInt(2)},
     max_lambda : {RInt(2)},
     sampling_times_available : BOOLEAN,
     thrds : 1..MaxThrds,
     seed : 0..MaxSeed,
     stdlib : StdLibs]

WithVectors(a) ==
    [entry |-> a.entry, poset |-> a.poset, lambda |-> a.lambda, lambda_s |-> a.lambda_s,
     eps |-> a.eps, obs |-> a.obs, L |-> a.L, sampling |-> a.sampling,
     max_iter |-> a.max_iter, update_step_size |-> a.update_step_size, tol |-> a.tol,
     max_lambda |-> a.max_lambda,
     sampling_times_available |-> a.sampling_times_available,
     thrds |-> a.thrds, seed |-> a.seed, stdlib |-> a.stdlib,
     times |-> Ones(Len(a.obs)), weights |-> Ones(Len(a.obs))]

Init ==
    /\ arg \in {WithVectors(a) : a \in {b \in MCEMArgs : b.L * b.max_iter <= MaxWork}}
    /\ StartState
    /\ run = 1
    /\ first = <<>>

Prologue == Construct \/ HasCycles \/ ThrowNotAcyclic \/ TopologicalSort

Driver ==
    \/ CallMCEM
    \/ LoopTest
    \/ WindowBoundary
    \/ Spawn
    \/ \E t \in Workers : EStepWorker(t)
    \/ MStep
    \/ WriteBack

Next == Prologue \/ Driver

Spec == Init /\ [][Next]_vars

\* the runs with one sample per observation, built with libstdc++
LoopArgs ==
    {b \in MCEMArgs : b.L = 1 /\ b.stdlib = "libstdc++" /\ b.seed = 0
                        /\ b.sampling_times_available}

InitLoop ==
    /\ arg \in {WithVectors(a) : a \in LoopArgs}
    /\ StartState
    /\ run = 1
    /\ first = <<>>

\* the steps of the main thread outside the window boundary and the M-step
Sequential == Prologue \/ CallMCEM \/ LoopTest \/ Spawn \/ WriteBack

\* weak fairness of WindowBoundary, of the E-step workers and of MStep, written
\* out: each is enabled exactly where pc says so, and it is the only step
\* that leaves such a state
Computes ==
    \/ []<>(pc \notin {"boundary", "region"})
    \/ []<><<pc \in {"boundary", "region"}>>_vars

\* the threads of the team run on, and so does the main thread
FairSpec == InitLoop /\ [][Next]_vars /\ WF_vars(Sequential) /\ Computes

\* the runs that are executed twice
RerunArgs ==
    {b \in MCEMArgs : b.L = 1 /\ b.tol = Frac(1, 2) /\ ~b.sampling_times_available}

InitRerun ==
    /\ arg \in {WithVectors(a) : a \in RerunArgs}
    /\ StartState
    /\ run = 1
    /\ first = <<>>

\* two executions in a row with the same arguments
SpecRerun == InitRerun /\ [][Next \/ Rerun]_vars

\* the calls of the five entry points, among them calls with a poset that has
\* a cycle, with L == 0, with thrds == 0 and with a proposal that is not
\* implemented
ProposalNames == Proposals \cup {"add-remove", "backward"}

EntryArgs ==
    [entry : Entries,
     poset : PosetChoices,
     lambda : {[j \in Events |-> One]},
     lambda_s : {One},
     eps : {Frac(1, 2)},
     obs : {[i \in 1..n |-> [j \in Events |-> j < 3 - i]] : n \in 1..MaxObs},
     L : 0..1,
     sampling : ProposalNames,
     max_iter : {1},
     update_step_size : {0},
     tol : {Zero},
     max_lambda : {RInt(2)},
     sampling_times_available : BOOLEAN,
     thrds : 0..MaxThrds,
     seed : {0, 2},
     stdlib : {"libstdc++"}]

InitEntry ==
    /\ arg \in {WithVectors(a) : a \in EntryArgs}
    /\ StartState
    /\ run = 1
    /\ first = <<>>

Others ==
    \/ CallObsLlhood
    \/ \E t \in Workers : ObsLlhoodWorker(t)
    \/ ObsLlhoodReturn
    \/ CallImportance
    \/ \E t \in Workers : ImportanceWorker(t)
    \/ ImportanceReturn
    \/ CallImportanceGenotype
    \/ CallSampleGenotypes
    \/ OutOfBounds

NextEntry == Next \/ Others

SpecEntry == InitEntry /\ [][NextEntry]_vars

(***************************************************************************)
(* Properties of MCEM_hcbn.                                                *)
(***************************************************************************)
InRange(lambda, eps) ==
    /\ \A j \in Events : RLt(Zero, lambda[j])
    /\ RLe(Zero, eps)
    /\ RLe(eps, One)

\* an M-step has been executed and the loop has not been left
AfterMStep == pc \in {"loop", "boundary", "spawn", "region"} /\ em.iter >= 1

Ended == pc \in {"writeback", "done"}

\* C3: after every M-step, 0 < lambda[j] <= max_lambda for every event j and
\* 0 <= epsilon <= 1
C3_MStepClamp ==
    AfterMStep =>
        /\ InRange(model.lambda, model.epsilon)
        /\ \A j \in Events : RLe(model.lambda[j], arg.max_lambda)

\* C8: no M-step is executed on an expectation obtained by dividing by a zero
\* weight sum (the iteration would end in a Numerical error instead)
C8_NoMStepOnZeroSum ==
    \A k \in 1..Len(obsv.msteps) : ~obsv.msteps[k].zero_sum

\* C5: for a model entered with lambda > 0 and epsilon in [0, 1], the lambda and
\* epsilon written back when MCEM_hcbn returns are > 0 and in [0, 1]
C5_WriteBackInRange ==
    (pc = "done" /\ InRange(arg.lambda, arg.eps)) => InRange(model.lambda, model.epsilon)

\* the M-step results of the most recent window: the complete window tested at
\* the break, or the window that starts at the last boundary below max_iter
WindowStart ==
    IF obsv.broke_at >= 0 THEN obsv.broke_at - arg.update_step_size
    ELSE IF arg.update_step_size = 0 THEN 0
    ELSE arg.update_step_size * ((arg.max_iter - 1) \div arg.update_step_size)

Window == SubSeq(obsv.msteps, WindowStart + 1, Len(obsv.msteps))

Mean(vals) == RDiv(RSum(vals), RInt(Len(vals)))

\* C4: on both exit paths the model's lambda, epsilon and llhood are the
\* averages over the most recent window of M-step results, and the value
\* returned is the llhood stored in the model
C4_WriteBackIsWindowAverage ==
    pc = "done" =>
        /\ result.llhood = model.llhood
        /\ obsv.msteps # <<>> =>
              /\ Window # <<>>
              /\ \A j \in Events :
                    model.lambda[j] = Mean([k \in 1..Len(Window) |-> Window[k].lambda[j]])
              /\ model.epsilon = Mean([k \in 1..Len(Window) |-> Window[k].epsilon])
              /\ model.llhood = Mean([k \in 1..Len(Window) |-> Window[k].llhood])

\* C4's case: exhaustion of max_iter = 3 with a last window of one iteration,
\* after a complete window of two that did not pass the test
C4_Witness ==
    /\ pc = "done"
    /\ obsv.broke_at < 0
    /\ arg.update_step_size = 2
    /\ arg.max_iter = 3
    /\ Len(Window) = 1

\* the convergence test on the averages MCEM_hcbn holds after a break
TestPassed ==
    /\ RLe(RAbs(RSub(em.avg_eps, em.avg_eps_current)), arg.tol)
    /\ \A j \in Events :
          RLe(RAbs(RSub(em.avg_lambda[j], em.avg_lambda_current[j])), arg.tol)

C6_Bounded ==
    /\ Len(obsv.msteps) <= arg.max_iter
    /\ obsv.spawns <= arg.max_iter
    /\ (Ended /\ Len(obsv.msteps) < arg.max_iter) =>
          /\ em.iter = Len(obsv.msteps)
          /\ em.iter > 0
          /\ arg.update_step_size > 0
          /\ em.iter % arg.update_step_size = 0
          /\ TestPassed

C6_NoStepAfterExit ==
    Ended => /\ Ended'
             /\ obsv'.msteps = obsv.msteps
             /\ obsv'.spawns = obsv.spawns
             /\ obsv'.records = obsv.records

\* C6: MCEM_hcbn terminates after at most max_iter E-step/M-step pairs; it
\* stops after fewer only at an iteration index that is a positive multiple of
\* update_step_size at which the convergence test passed, and no E-step or
\* M-step is executed after that
C6_TerminatesWithinMaxIter ==
    /\ []C6_Bounded
    /\ [][C6_NoStepAfterExit]_vars
    /\ <>(pc \in {"done", "error"})

\* C6's case: a run that the convergence test ended before max_iter
C6_Witness ==
    /\ pc = "done"
    /\ Len(obsv.msteps) = 2
    /\ arg.max_iter = 3
    /\ arg.update_step_size = 1

\* the values two executions are compared by
SameIterates(a, b) ==
    /\ Len(a) <= Len(b)
    /\ \A k \in 1..Len(a) : /\ a[k].lambda = b[k].lambda
                            /\ a[k].epsilon = b[k].epsilon

\* C2: two executions of MCEM_hcbn with the same inputs, seed and thrds yield
\* the same per-iteration (lambda, epsilon) and the same final (lambda, eps,
\* llhood) whatever the interleaving of the workers, and every spawn consumes
\* exactly thrds draws of the root stream
C2_SameSeedSameRun ==
    /\ (run = 2) =>
          /\ SameIterates(obsv.msteps, first.msteps)
          /\ (pc = "done") => /\ result = first.result
                              /\ model.lambda = first.model.lambda
                              /\ model.epsilon = first.model.epsilon
                              /\ model.llhood = first.model.llhood
                              /\ Len(obsv.msteps) = Len(first.msteps)
    /\ (pc \in {"loop", "boundary", "spawn", "region", "writeback", "done"}) =>
          ctx.rng = RngIter(RngSeed(arg.seed), arg.thrds * obsv.spawns)

\* C2's case: the second of two executions with two workers, two observations
\* and at least two iterations has returned
C2_Witness ==
    /\ run = 2
    /\ pc = "done"
    /\ arg.thrds = 2
    /\ NObs = 2
    /\ Len(obsv.msteps) >= 2

(***************************************************************************)
(* Properties of the entry points.                                         *)
(***************************************************************************)
BeforeSort == pc \in {"start", "constructed", "checked", "error"}

C1_Refused ==
    /\ has_cycles(arg.poset) =>
          /\ BeforeSort
          /\ ~obsv.sorted
          /\ model.topo_path = <<>>
          /\ obsv.spawns = 0
          /\ rngs = <<>>
          /\ ctx.rng = 0
          /\ ~obsv.drawn
          /\ obsv.records = 0
          /\ (error = "NotAcyclic") = (pc = "error")
    /\ obsv.sorted => ~BeforeSort /\ ~model.cycle /\ ~has_cycles(model.poset)

C1_Throws ==
    (has_cycles(arg.poset) /\ pc = "checked") =>
        (pc' = "error" /\ error' = "NotAcyclic")

\* C1: for a poset with a cycle every entry point ends in NotAcyclic, before
\* topological_sort is called, before a stream is spawned or drawn from and
\* before a sample is generated; topological_sort is reached only after
\* has_cycles has recorded no cycle
C1_CycleRefusedBeforeSort == []C1_Refused /\ [][C1_Throws]_vars

\* C1's case: an entry point other than MCEM_hcbn has thrown NotAcyclic
C1_Witness ==
    /\ has_cycles(arg.poset)
    /\ arg.entry = "sample_genotypes"
    /\ error = "NotAcyclic"

\* C7: a proposal name other than "forward" and "rejection" is rejected with
\* NotImplemented: no importance record is returned and none is used by an
\* M-step or a log-likelihood
C7_UnsupportedRejected ==
    (/\ arg.sampling \notin Proposals
     /\ arg.entry # "sample_genotypes"
     /\ arg.L > 0
     /\ arg.thrds > 0) =>
        /\ obsv.records = 0
        /\ obsv.msteps = <<>>
        /\ pc # "done"

Invalid == arg.L = 0 \/ arg.thrds = 0

\* C9: MCEM_hcbn, obs_log_likelihood and importance_weight reject L == 0 and
\* thrds == 0 with OutOfRange before a sample is drawn and before a parameter
\* is updated
C9_InvalidRejected ==
    (/\ Invalid
     /\ ~has_cycles(arg.poset)
     /\ arg.entry \in {"MCEM_hcbn", "obs_log_likelihood", "importance_weight"}) =>
        /\ obsv.records = 0
        /\ ~obsv.drawn
        /\ obsv.msteps = <<>>
        /\ pc \notin {"done", "crashed"}

Processed ==
    {i \in 1..NObs : \E t \in Workers :
        /\ ChunkStart(t, NObs, Team) < i
        /\ i <= ChunkStart(t, NObs, Team) + par.done[t]}

\* the records the next E-step of worker t may obtain
Pending(t) ==
    UNION {importance_weight(arg.obs[NextObs(t)], arg.L, model, arg.times[NextObs(t)],
                             arg.sampling, s, arg.sampling_times_available, arg.stdlib) :
           s \in StreamStates(t)}

\* forward proposal, epsilon = 0: weight 1 at distance 0 and weight 0 elsewhere
C11_Weights ==
    (pc = "region" /\ arg.sampling = "forward" /\ model.epsilon = Zero) =>
        \A t \in Workers : Remaining(t) =>
            \A r \in Pending(t) : \A l \in 1..arg.L :
                r.w[l] = (IF r.dist[l] = 0 THEN One ELSE Zero)

\* C11: under the forward proposal with epsilon = 0 every sample at Hamming
\* distance 0 from the observation has weight 1, every other sample weight 0,
\* and the expected distance the E-step computes for the observation is 0
C11_ForwardZeroEps ==
    /\ C11_Weights
    /\ (pc = "region" /\ arg.sampling = "forward" /\ model.epsilon = Zero) =>
          \A i \in Processed : par.expected_dist[i] = Zero

\* the pool the rejection proposal draws for observation i from a stream in
\* state s, with the unnormalised weights of its rows
PoolOf(i, s) ==
    LET K == NumEvents * arg.L
        pool == sample_genotypes(K, model, [l \in 1..K |-> arg.times[i]], s,
                                 arg.sampling_times_available)
        dist == hamming_dist_mat(pool.obs, arg.obs[i])
    IN  [K |-> K, dist |-> dist, Tdiff |-> pool.T_events,
         q |-> [k \in 1..K |-> BernoulliWeight(dist[k], model.epsilon, NumEvents)]]

AllZero(q) == \A k \in 1..Len(q) : q[k] = Zero

RejectionPending == pc = "region" /\ arg.sampling = "rejection"

\* C12: in the rejection proposal the uniform fallback is taken exactly when
\* all K = p * L pool weights are zero; every returned sample has the dist and
\* the Tdiff row of one pool row, of non-zero weight unless the fallback is
\* taken; and without the fallback all L weights equal Q / K
C12_RejectionPool ==
    RejectionPending =>
        \A t \in Workers : Remaining(t) =>
            \A s \in StreamStates(t) :
                LET i == NextObs(t)
                    pool == PoolOf(i, s)
                    Q == RSum(pool.q)
                IN  /\ UniformFallback(pool.q) <=> AllZero(pool.q)
                    /\ \A r \in importance_weight(arg.obs[i], arg.L, model, arg.times[i],
                                                  arg.sampling, s,
                                                  arg.sampling_times_available, arg.stdlib) :
                          \A l \in 1..arg.L :
                            /\ \E k \in 1..pool.K :
                                  /\ r.dist[l] = pool.dist[k]
                                  /\ r.Tdiff[l] = pool.Tdiff[k]
                                  /\ AllZero(pool.q) \/ pool.q[k] # Zero
                            /\ ~AllZero(pool.q) => r.w[l] = RDiv(Q, RInt(pool.K))

\* C12's case: a worker is about to sample for an observation from a pool of
\* four rows of which some, not all, have weight zero
C12_Witness ==
    /\ RejectionPending
    /\ arg.L = 2
    /\ \E t \in Workers : Remaining(t) /\
          \E s \in StreamStates(t) :
              LET q == PoolOf(NextObs(t), s).q
              IN  (\E k \in 1..Len(q) : q[k] = Zero) /\ (\E k \in 1..Len(q) : q[k] # Zero)

\* the fallback case of C12 is reached as well
C12_FallbackReached ==
    /\ RejectionPending
    /\ \E t \in Workers : Remaining(t) /\
          \E s \in StreamStates(t) : AllZero(PoolOf(NextObs(t), s).q)

(***************************************************************************)
(* Properties of the parallel regions.                                     *)
(***************************************************************************)
\* worker t has processed one more observation of the E-step or of the
\* aggregator
Processes(t) ==
    /\ arg.entry \in {"MCEM_hcbn", "obs_log_likelihood"}
    /\ arg.L > 0
    /\ pc = "region"
    /\ pc' = "region"
    /\ par'.done[t] = par.done[t] + 1

\* the step of worker t draws from stream t, which exists, and from no other
DrawsOwnStream(t) ==
    /\ t < arg.thrds
    /\ Len(rngs) = arg.thrds
    /\ Len(rngs') = arg.thrds
    /\ \A k \in 1..Len(rngs) : k # t + 1 => rngs'[k] = rngs[k]
    /\ \E r \in importance_weight(arg.obs[NextObs(t)], arg.L, model, arg.times[NextObs(t)],
                                  arg.sampling, rngs[t + 1],
                                  arg.sampling_times_available, arg.stdlib) :
          rngs'[t + 1] = r.rng
    /\ ctx' = ctx

C13_Discipline == \A t \in Workers : Processes(t) => DrawsOwnStream(t)

C13_Spawned ==
    (pc = "region" /\ arg.entry \in {"MCEM_hcbn", "obs_log_likelihood"}) =>
        /\ Len(rngs) = arg.thrds
        /\ ctx.rng = RngIter(RngSeed(arg.seed), arg.thrds * obsv.spawns)

\* C13: in each parallel region exactly thrds streams are spawned before the
\* region starts; the draws for an observation come from the stream whose
\* index is the number of the worker that executes it, which is below thrds;
\* no stream is drawn from by two workers, and the root stream is not drawn
\* from while the region runs
C13_OneStreamPerWorker == []C13_Spawned /\ [][C13_Discipline]_vars

\* the same for the calls with thrds >= 1
C13_WithThreads == [][arg.thrds >= 1 => C13_Discipline]_vars

\* worker t executes one iteration of the E-step loop
EStepOf(t) ==
    /\ arg.entry = "MCEM_hcbn"
    /\ pc = "region"
    /\ pc' = "region"
    /\ par'.done[t] = par.done[t] + 1

\* the iteration of worker t is that of an observation not yet processed and
\* writes entry i of expected_dist and row i of expected_Tdiff only
WritesOwnRow(t) ==
    LET i == NextObs(t)
    IN  /\ i \in 1..NObs
        /\ i \notin Processed
        /\ model' = model
        /\ obsv'.records = obsv.records + 1
        /\ \A j \in 1..NObs : j # i =>
              /\ par'.expected_dist[j] = par.expected_dist[j]
              /\ par'.expected_Tdiff[j] = par.expected_Tdiff[j]

\* the model's parameters are written in the region
WritesModel ==
    /\ arg.entry = "MCEM_hcbn"
    /\ pc = "region"
    /\ \/ model'.lambda # model.lambda
       \/ model'.epsilon # model.epsilon
       \/ Len(obsv'.msteps) > Len(obsv.msteps)

AfterBarrier ==
    /\ AllDone
    /\ Processed = 1..NObs
    /\ obsv.records = NObs * obsv.spawns

C14_Step ==
    /\ \A t \in Workers : EStepOf(t) => WritesOwnRow(t)
    /\ WritesModel => AfterBarrier

\* C14: in every iteration and every interleaving the M-step starts only after
\* all N observations were processed, each once and each writing only its own
\* entry of expected_dist and row of expected_Tdiff, and lambda and epsilon are
\* not written while a worker is inside the E-step
C14_BarrierBeforeMStep == [][C14_Step]_vars

\* C14's case: the second M-step of a run with two workers and two observations
\* has been executed
C14_Witness ==
    /\ pc = "loop"
    /\ Len(obsv.msteps) = 2
    /\ arg.thrds = 2
    /\ NObs = 2

\* the convergence test is evaluated in this step, on valid control values
AtBoundary ==
    /\ pc = "boundary"
    /\ em.iter = em.update_step_size
    /\ arg.update_step_size >= 1

\* the M-step results of the window that ends at iteration k
WindowUpTo(k) == SubSeq(obsv.msteps, k - arg.update_step_size + 1, k)

MeanLambda(win) == [j \in Events |-> Mean([k \in 1..Len(win) |-> win[k].lambda[j]])]

MeanEps(win) == Mean([k \in 1..Len(win) |-> win[k].epsilon])

Within(a, b, tol) == RLe(RAbs(RSub(a, b)), tol)

\* what the boundary does with the averages prev and cur of (lambda, epsilon)
BoundaryOutcome(prev_l, prev_e, cur_l, cur_e) ==
    IF Within(prev_e, cur_e, arg.tol) /\ \A j \in Events : Within(prev_l[j], cur_l[j], arg.tol)
    THEN pc' = "writeback"
    ELSE /\ pc' = "spawn"
         /\ em'.avg_lambda = cur_l
         /\ em'.avg_eps = cur_e
         /\ em'.update_step_size = em.update_step_size + arg.update_step_size
         /\ em'.avg_lambda_current = ZeroVec
         /\ em'.avg_eps_current = Zero
         /\ em'.avg_llhood = Zero

\* the test is made on the averages of the window that has just been completed
\* and on the values avg_lambda and avg_eps hold
C15_Outcome ==
    AtBoundary =>
        LET cur == WindowUpTo(em.iter)
        IN  /\ Len(cur) = arg.update_step_size
            /\ BoundaryOutcome(em.avg_lambda, em.avg_eps, MeanLambda(cur), MeanEps(cur))

\* avg_lambda and avg_eps are the averages of the complete window before the
\* one that has just been completed
C15_Previous ==
    AtBoundary =>
        /\ em.iter >= 2 * arg.update_step_size
        /\ LET prev == WindowUpTo(em.iter - arg.update_step_size)
           IN  /\ em.avg_lambda = MeanLambda(prev)
               /\ em.avg_eps = MeanEps(prev)

\* C15: at every window boundary, the first included, the convergence test
\* compares the averages over the preceding complete window with the averages
\* over the current complete window, breaks exactly when all differences are
\* within tol, and otherwise commits the averages, advances the boundary and
\* resets the sums
C15_ComparesWindowAverages == [][C15_Outcome /\ C15_Previous]_vars

\* the same at every boundary but the first
C15_AfterFirstBoundary ==
    [][C15_Outcome /\ (em.iter > arg.update_step_size => C15_Previous)]_vars

\* the first boundary ends the run on a comparison with the initial zeros
C15_BreakAtFirstBoundary ==
    /\ obsv.broke_at >= 1
    /\ obsv.broke_at = arg.update_step_size
    /\ \E j \in Events : RLt(Zero, em.avg_lambda_current[j])

\* C16: for max_iter >= 1 and update_step_size >= 1, every division of the
\* window sums, by update_step_size at a boundary and by num_iter at the final
\* iteration, is by the number of iterations added to the sums since their last
\* reset, and no sum is divided twice
C16_DivisorIsWindowLength ==
    (arg.entry = "MCEM_hcbn" /\ arg.max_iter >= 1 /\ arg.update_step_size >= 1) =>
        \A k \in 1..Len(obsv.divisions) :
            /\ obsv.divisions[k].divisor = obsv.divisions[k].added
            /\ ~obsv.divisions[k].again

\* C16's case: max_iter = boundary + 1, where the unsigned subtraction wraps: a
\* complete window of two was divided at the boundary and the last window of
\* one at the final iteration
C16_Witness ==
    /\ pc = "done"
    /\ arg.max_iter = 3
    /\ arg.update_step_size = 2
    /\ Len(obsv.divisions) = 2
    /\ obsv.divisions[1].divisor = 2
    /\ obsv.divisions[2].divisor = 1

\* max_iter < update_step_size: the only division is that of the final
\* iteration, by max_iter
C16_ShortRun ==
    /\ pc = "done"
    /\ arg.max_iter = 1
    /\ arg.update_step_size = 2
    /\ Len(obsv.divisions) = 1
    /\ obsv.divisions[1].divisor = 1

\* is_compatible(genotype, model): no event is set while one of its parents in
\* the poset is not
Compatible(genotype, poset) == \A e \in poset : genotype[e[2]] => genotype[e[1]]

C17_CompatibleWhenParentsFirst ==
    (pc = "done" /\ arg.entry = "sample_genotypes" /\ ~has_cycles(arg.poset)) =>
        \A i \in 1..Len(obsv.last.obs) :
            (\A e \in arg.poset :
                RLe(obsv.last.T_events_sum[i][e[1]], obsv.last.T_events_sum[i][e[2]]))
            => Compatible(obsv.last.obs[i], arg.poset)

====
